---------------------------- MODULE Spec2Model ----------------------------
(***************************************************************************)
(* goteststats (main.go): reconstruction of per-test execution times from  *)
(* the event stream of `go test -json`.                                    *)
(*                                                                         *)
(* The Go program keeps two maps from test name to *RunningTest:           *)
(* allTests (All) and runningTests (Active).  The records are heap         *)
(* objects reached through pointers (Parent, Children, the two maps), so   *)
(* the model keeps a heap of records addressed by allocation index; 0 is   *)
(* the nil pointer.  Durations and timestamps are integers in nanoseconds, *)
(* as time.Duration is.  The Package field is carried by no decision of    *)
(* the program and is left out.                                            *)
(***************************************************************************)
EXTENDS Integers, Sequences, FiniteSets, TLC

VARIABLES
    heap,          \* Seq of RunningTest records; heap[i] is the object at address i
    allTests,      \* [Names -> address or 0]   (main.go:39)
    runningTests,  \* [Names -> address or 0]   (main.go:40)
    event,         \* the event main's loop decoded last (main.go:58)
    nEvents,       \* how many events main's loop has decoded
    pausedAt,      \* history: per name, the record a pause took out of
                   \* runningTests and its times right after that pause,
                   \* until another event names the test
    panicMsg,      \* "" while the process lives, else the panic that aborted it
    report         \* what main printed after the end of the stream (main.go:83-110)

vars == <<heap, allTests, runningTests, event, nEvents, pausedAt, panicMsg,
          report>>

---------------------------------------------------------------------------
(* Bounds of the model and constants of the program *)

Millisecond == 1000000

\* the timestamps of consecutive events are equal or one tick apart
Tick == 10 * Millisecond

Deltas == {0, Tick}

\* the length of the event streams explored
MaxEvents == 4

\* the same for the streams that name P, P/a and P/b only
MaxEventsSerial == 5

\* the same for the streams that name P and P/a only
MaxEventsPair == 6

\* test names are strings; a string is the sequence of its characters
NameP == <<"P">>
NameQ == <<"Q">>
NamePa == <<"P", "/", "a">>
NamePb == <<"P", "/", "b">>
NamePax == <<"P", "/", "a", "/", "x">>

Names == {NameP, NameQ, NamePa, NamePb, NamePax}

SerialNames == {NameP, NamePa, NamePb}

PairNames == {NameP, NamePa}

NIL == 0
EmptyName == <<>>

---------------------------------------------------------------------------
(* Strings *)

\* regexp \S: any character that is not white space
IsNonSpace(c) == c \notin {" ", "\t", "\n", "\r", "\f"}

AllNonSpace(s) == \A i \in 1..Len(s) : IsNonSpace(s[i])

\* strings.HasPrefix(s, prefix)
HasPrefix(s, prefix) ==
    /\ Len(prefix) <= Len(s)
    /\ SubSeq(s, 1, Len(prefix)) = prefix

\* positions of a "/" that subTestRegexp ^(\S+)/\S+$ can match as its literal
\* slash: something non-empty before it and after it, no white space anywhere
SlashPositions(test) ==
    {i \in 2..(Len(test) - 1) : test[i] = "/" /\ AllNonSpace(test)}

SetMax(S) == CHOOSE x \in S : \A y \in S : y <= x

\* isSubTest: the parent group is greedy, so it ends at the last such slash
IsSubTestMatch(test) == SlashPositions(test) # {}

IsSubTestParent(test) ==
    IF IsSubTestMatch(test)
    THEN SubSeq(test, 1, SetMax(SlashPositions(test)) - 1)
    ELSE EmptyName

\* Go's integer division truncates toward zero
GoDiv(a, b) ==
    LET q == (IF a < 0 THEN -a ELSE a) \div (IF b < 0 THEN -b ELSE b)
    IN  IF (a < 0) = (b < 0) THEN q ELSE -q

---------------------------------------------------------------------------
(* Records and the program state handed from statement to statement *)

NewRunningTest(name, time) ==
    [Name |-> name,
     LastTimestamp |-> time,
     AdjustedExecutionTime |-> 0,
     TotalExecutionTime |-> 0,
     Children |-> <<>>,
     Parent |-> NIL,
     AssumedStopped |-> FALSE,
     Parallel |-> FALSE]

\* st = [heap, allTests, runningTests, panicMsg]
State == [heap |-> heap, allTests |-> allTests,
          runningTests |-> runningTests, panicMsg |-> panicMsg]

\* addresses of the records in runningTests
RunningSet(st) ==
    {st.runningTests[n] : n \in DOMAIN st.runningTests} \ {NIL}

\* the count both update routines divide by: running and not assumed stopped
ActiveCount(st) ==
    Cardinality({a \in RunningSet(st) : ~st.heap[a].AssumedStopped})

SetHeap(st, h) == [st EXCEPT !.heap = h]

Panic(st, msg) == [st EXCEPT !.panicMsg = msg]

\* AdvancedRecord with the share multiplied by the count instead of divided
AdvancedRecordTimesCount(r, time, count) ==
    [r EXCEPT
        !.AdjustedExecutionTime = @ + (time - r.LastTimestamp) * count,
        !.TotalExecutionTime = @ + (time - r.LastTimestamp),
        !.LastTimestamp = time]

\* AdvancedRecord with the operands of Sub exchanged
AdvancedRecordSubSwapped(r, time, count) ==
    [r EXCEPT
        !.AdjustedExecutionTime = @ + GoDiv(r.LastTimestamp - time, count),
        !.TotalExecutionTime = @ + (r.LastTimestamp - time),
        !.LastTimestamp = time]

\* the arithmetic of updateExecutionTimes / updateExecutionTimesWithCount
AdvancedRecord(r, time, count) ==
    [r EXCEPT
        !.AdjustedExecutionTime = @ + GoDiv(time - r.LastTimestamp, count),
        !.TotalExecutionTime = @ + (time - r.LastTimestamp),
        !.LastTimestamp = time]

\* updateExecutionTimesWithCount(runningTest, event, count)
UpdateExecutionTimesWithCount(st, a, time, count) ==
    IF st.heap[a].AssumedStopped THEN st
    ELSE IF count = 0 THEN Panic(st, "integer divide by zero")
    ELSE SetHeap(st, [st.heap EXCEPT ![a] = AdvancedRecord(@, time, count)])

\* UpdateExecutionTimes without the early return for an assumed-stopped
\* record
UpdateExecutionTimesOfStopped(st, a, time) ==
    IF ActiveCount(st) = 0 THEN Panic(st, "integer divide by zero")
    ELSE SetHeap(st, [st.heap EXCEPT
                        ![a] = AdvancedRecord(@, time, ActiveCount(st))])

\* updateExecutionTimes(runningTest, event)
UpdateExecutionTimes(st, a, time) ==
    IF st.heap[a].AssumedStopped THEN st
    ELSE UpdateExecutionTimesWithCount(st, a, time, ActiveCount(st))

\* UpdateRunningTests dividing by len(runningTests), assumed-stopped
\* records included
UpdateRunningTestsByLen(st, time) ==
    LET count == Cardinality(RunningSet(st))
        live == {a \in RunningSet(st) : ~st.heap[a].AssumedStopped}
    IN  SetHeap(st, [a \in DOMAIN st.heap |->
                        IF a \in live
                        THEN AdvancedRecord(st.heap[a], time, count)
                        ELSE st.heap[a]])

\* UpdateRunningTests giving every record the whole interval
UpdateRunningTestsUndivided(st, time) ==
    LET live == {a \in RunningSet(st) : ~st.heap[a].AssumedStopped}
    IN  SetHeap(st, [a \in DOMAIN st.heap |->
                        IF a \in live
                        THEN AdvancedRecord(st.heap[a], time, 1)
                        ELSE st.heap[a]])

\* updateRunningTests(event): one count, then every running record
UpdateRunningTests(st, time) ==
    LET count == ActiveCount(st)
        live == {a \in RunningSet(st) : ~st.heap[a].AssumedStopped}
    IN  SetHeap(st, [a \in DOMAIN st.heap |->
                        IF a \in live
                        THEN AdvancedRecord(st.heap[a], time, count)
                        ELSE st.heap[a]])


---------------------------------------------------------------------------
(* Map access *)

\* m[key] of a Go map: the zero value (nil) for an absent key
Lookup(m, key) == IF key \in DOMAIN m THEN m[key] ELSE NIL

\* the keys of allTests
KnownNames(st) == {n \in DOMAIN st.allTests : st.allTests[n] # NIL}

\* runningTests[key] = a
SetRunning(st, key, a) == [st EXCEPT !.runningTests[key] = a]

\* delete(runningTests, key)
DeleteRunning(st, key) ==
    IF key \in DOMAIN st.runningTests
    THEN [st EXCEPT !.runningTests[key] = NIL]
    ELSE st

---------------------------------------------------------------------------
(* handleRun *)

\* main.go:124-145: the literal parent when it is known, else the longest
\* known name that, followed by "/", is a prefix of the test; when no name
\* matches, parent keeps the literal parent isSubTest returned
ResolveParent(st, test) ==
    LET literal == IsSubTestParent(test)
        matches == {n \in KnownNames(st) : HasPrefix(test, n \o <<"/">>)}
    IN  IF Lookup(st.allTests, literal) # NIL THEN literal
        ELSE IF matches = {} THEN literal
        ELSE CHOOSE n \in matches : \A m \in matches : Len(m) <= Len(n)

\* StopSiblingMatch without the test of runningTest.Parallel
RECURSIVE StopSiblingMatchAnyParallel(_, _, _, _)
StopSiblingMatchAnyParallel(h, runningTest, potentialSibling, parent) ==
    IF /\ h[potentialSibling].Parent # NIL
       /\ h[h[potentialSibling].Parent].Name = parent
       /\ ~h[runningTest].AssumedStopped
    THEN potentialSibling
    ELSE IF /\ h[potentialSibling].Parent # NIL
            /\ h[h[potentialSibling].Parent].Parent # NIL
    THEN StopSiblingMatchAnyParallel(h, runningTest,
                                     h[potentialSibling].Parent, parent)
    ELSE NIL

\* stopSibling's search: the record on runningTest's parent chain (starting at
\* runningTest itself) whose parent is named `parent`, or nil
RECURSIVE StopSiblingMatch(_, _, _, _)
StopSiblingMatch(h, runningTest, potentialSibling, parent) ==
    IF /\ h[potentialSibling].Parent # NIL
       /\ h[h[potentialSibling].Parent].Name = parent
       /\ ~h[runningTest].Parallel
       /\ ~h[runningTest].AssumedStopped
    THEN potentialSibling
    ELSE IF /\ h[potentialSibling].Parent # NIL
            /\ h[h[potentialSibling].Parent].Parent # NIL
    THEN StopSiblingMatch(h, runningTest, h[potentialSibling].Parent, parent)
    ELSE NIL

\* AttachChild with the two records exchanged in the Parent assignment
AttachChildReversed(h, parentAddr, childAddr) ==
    [h EXCEPT ![childAddr].Parent = parentAddr,
              ![parentAddr].Parent = childAddr,
              ![parentAddr].Children = Append(@, childAddr)]

\* main.go:153-154 and 188-189: the new record gets its parent and is
\* appended to the parent's children
AttachChild(h, parentAddr, childAddr) ==
    [h EXCEPT ![childAddr].Parent = parentAddr,
              ![parentAddr].Children = Append(@, childAddr)]

\* StopSibling without the closing updateExecutionTimes of the sibling
StopSiblingNoUpdate(st, test, time, runningTest, potentialSibling) ==
    LET h2 == [st.heap EXCEPT ![runningTest].AssumedStopped = TRUE]
        h3 == AttachChild(h2, h2[potentialSibling].Parent, st.allTests[test])
    IN  SetRunning(SetHeap(st, h3), test, st.allTests[test])

\* main.go:185-192: the body of stopSibling when it matches
StopSibling(st, test, time, runningTest, potentialSibling) ==
    LET s1 == UpdateExecutionTimes(st, runningTest, time)
        h2 == [s1.heap EXCEPT ![runningTest].AssumedStopped = TRUE]
        h3 == AttachChild(h2, h2[potentialSibling].Parent, st.allTests[test])
    IN  IF s1.panicMsg # "" THEN s1
        ELSE SetRunning(SetHeap(s1, h3), test, st.allTests[test])

\* main.go:115-119: the record of the event's test is allocated and stored
\* in allTests under the test's name, whatever was stored there
RegisterTest(st, test, time) ==
    [st EXCEPT !.heap = Append(@, NewRunningTest(test, time)),
               !.allTests[test] = Len(st.heap) + 1]

\* AttachToRunningParent without the delete of the parent from runningTests
AttachToRunningParentKept(st, test, time, runningParent) ==
    LET new == st.allTests[test]
        s1 == SetHeap(st, AttachChild(st.heap, runningParent, new))
        s2 == UpdateExecutionTimes(s1, runningParent, time)
    IN  IF Len(s1.heap[runningParent].Children) = 1
        THEN IF s2.panicMsg # "" THEN s2 ELSE SetRunning(s2, test, new)
        ELSE Panic(s1, "Running parent test has multiple running children")

\* main.go:151-165: the parent is running, the new test is its first child
AttachToRunningParent(st, test, time, runningParent) ==
    LET new == st.allTests[test]
        s1 == SetHeap(st, AttachChild(st.heap, runningParent, new))
        s2 == UpdateExecutionTimes(s1, runningParent, time)
        s3 == DeleteRunning(s2, s2.heap[runningParent].Name)
    IN  IF Len(s1.heap[runningParent].Children) = 1
        THEN IF s2.panicMsg # "" THEN s2 ELSE SetRunning(s3, test, new)
        ELSE Panic(s1, "Running parent test has multiple running children")

\* the running records the loop of main.go:168-172 can stop: map iteration
\* order is unspecified, so the first matching record is any of them
SiblingCandidates(st, parent) ==
    {a \in RunningSet(st) : StopSiblingMatch(st.heap, a, a, parent) # NIL}

\* the choices the iteration order leaves to handleRun: NIL when the loop
\* is not reached or matches nothing
SiblingChoices(st, test, time) ==
    LET s1 == RegisterTest(st, test, time)
        parent == ResolveParent(s1, test)
    IN  IF /\ IsSubTestMatch(test)
           /\ parent # EmptyName
           /\ Lookup(s1.runningTests, parent) = NIL
           /\ SiblingCandidates(s1, parent) # {}
        THEN SiblingCandidates(s1, parent)
        ELSE {NIL}

\* handleRun(event); pick is the running record the sibling loop meets first
HandleRun(st, test, time, pick) ==
    LET s1 == RegisterTest(st, test, time)
        subtest == IsSubTestMatch(test)
        parent == ResolveParent(s1, test)
        runningParent == Lookup(s1.runningTests, parent)
    IN  IF subtest /\ parent = EmptyName
        THEN Panic(s1, "Parent test not found for subtest")
        ELSE IF subtest /\ runningParent # NIL
        THEN AttachToRunningParent(s1, test, time, runningParent)
        ELSE IF subtest /\ pick # NIL
        THEN StopSibling(s1, test, time, pick,
                         StopSiblingMatch(s1.heap, pick, pick, parent))
        ELSE SetRunning(UpdateRunningTests(s1, time), test, s1.allTests[test])

---------------------------------------------------------------------------
(* handlePause, handleCont, handleStop *)

\* handlePause(event)
HandlePause(st, test, time) ==
    LET pausedTest == Lookup(st.runningTests, test)
        s1 == SetHeap(st, [st.heap EXCEPT ![pausedTest].Parallel = TRUE,
                                          ![pausedTest].AssumedStopped = FALSE])
    IN  IF pausedTest = NIL THEN st
        ELSE DeleteRunning(UpdateRunningTests(s1, time), test)

\* main.go:223-225: updateExecutionTimes on every running record; a call
\* changes its own record only and the count it reads is the same in every call
UpdateEachRunning(st, time) ==
    LET bad == {a \in RunningSet(st) :
                    UpdateExecutionTimes(st, a, time).panicMsg # ""}
    IN  IF bad # {} THEN Panic(st, "integer divide by zero")
        ELSE SetHeap(st, [a \in DOMAIN st.heap |->
                            IF a \in RunningSet(st)
                            THEN UpdateExecutionTimes(st, a, time).heap[a]
                            ELSE st.heap[a]])

\* HandleCont advancing the resumed record over the time it was away
HandleContAdvancingResumed(st, test, time) ==
    LET a == Lookup(st.allTests, test)
        s1 == UpdateEachRunning(st, time)
        h2 == [s1.heap EXCEPT ![a] = AdvancedRecord(@, time, 1),
                              ![a].AssumedStopped = FALSE]
    IN  IF a = NIL THEN st
        ELSE IF s1.panicMsg # "" THEN s1
        ELSE SetRunning(SetHeap(s1, h2), test, a)

\* handleCont(event)
HandleCont(st, test, time) ==
    LET a == Lookup(st.allTests, test)
        s1 == UpdateEachRunning(st, time)
        h2 == [s1.heap EXCEPT ![a].LastTimestamp = time,
                              ![a].AssumedStopped = FALSE]
    IN  IF a = NIL THEN st
        ELSE IF s1.panicMsg # "" THEN s1
        ELSE SetRunning(SetHeap(s1, h2), test, a)

\* main.go:290-295: the first occurrence of a in the list is removed
RemoveChild(children, a) ==
    LET hits == {i \in 1..Len(children) : children[i] = a}
        first == CHOOSE i \in hits : \A j \in hits : i <= j
    IN  IF hits = {} THEN children
        ELSE SubSeq(children, 1, first - 1)
             \o SubSeq(children, first + 1, Len(children))

\* ResumeParent leaving the parent's LastTimestamp where it was
ResumeParentStaleClock(st, a, time) ==
    LET p == st.heap[a].Parent
        s1 == UpdateExecutionTimes(st, a, time)
        h2 == [s1.heap EXCEPT ![p].Children = <<>>]
    IN  IF s1.panicMsg # "" THEN s1
        ELSE SetRunning(SetHeap(s1, h2), s1.heap[p].Name, p)

\* main.go:278-283: the last child finishes and the parent runs again
ResumeParent(st, a, time) ==
    LET p == st.heap[a].Parent
        s1 == UpdateExecutionTimes(st, a, time)
        h2 == [s1.heap EXCEPT ![p].Children = <<>>,
                              ![p].LastTimestamp = time]
    IN  IF s1.panicMsg # "" THEN s1
        ELSE SetRunning(SetHeap(s1, h2), s1.heap[p].Name, p)

\* main.go:284-296: other children remain; the child leaves the parent's list
DetachChild(st, a, time) ==
    LET p == st.heap[a].Parent
        s1 == IF ~st.heap[a].AssumedStopped
              THEN UpdateRunningTests(st, time) ELSE st
    IN  SetHeap(s1, [s1.heap EXCEPT ![p].Children = RemoveChild(@, a)])

\* HandleStop looking the test up in allTests instead of runningTests
HandleStopFromAll(st, test, time) ==
    LET a == Lookup(st.allTests, test)
        p == st.heap[a].Parent
        n == Len(st.heap[p].Children)
        s1 == IF n = 1 THEN ResumeParent(st, a, time)
              ELSE DetachChild(st, a, time)
    IN  IF a = NIL THEN st
        ELSE IF p # NIL
        THEN IF n = 0 THEN Panic(st, "Parent test has no children")
             ELSE IF s1.panicMsg # "" THEN s1
             ELSE DeleteRunning(s1, test)
        ELSE DeleteRunning(UpdateRunningTests(st, time), test)

\* handleStop(event)
HandleStop(st, test, time) ==
    LET a == Lookup(st.runningTests, test)
        p == st.heap[a].Parent
        n == Len(st.heap[p].Children)
        s1 == IF n = 1 THEN ResumeParent(st, a, time)
              ELSE DetachChild(st, a, time)
    IN  IF a = NIL THEN st
        ELSE IF p # NIL
        THEN IF n = 0 THEN Panic(st, "Parent test has no children")
             ELSE IF s1.panicMsg # "" THEN s1
             ELSE DeleteRunning(s1, test)
        ELSE DeleteRunning(UpdateRunningTests(st, time), test)

---------------------------------------------------------------------------
(* main: the event loop *)

Commit(st) ==
    /\ heap' = st.heap
    /\ allTests' = st.allTests
    /\ runningTests' = st.runningTests
    /\ panicMsg' = st.panicMsg

\* nothing is printed before the end of the stream
NoReport == [Done |-> FALSE, Warnings |-> {}, Lines |-> <<>>]

Read(action, test, d) ==
    /\ panicMsg = ""
    /\ ~report.Done
    /\ report' = report
    /\ nEvents' = nEvents + 1
    /\ event' = [Action |-> action, Test |-> test, Time |-> event.Time + d]

NoSnapshot == [Addr |-> NIL, Adjusted |-> 0, Total |-> 0]

Snapshot(st, a) ==
    [Addr |-> a,
     Adjusted |-> st.heap[a].AdjustedExecutionTime,
     Total |-> st.heap[a].TotalExecutionTime]

\* an event naming the test ends the pause being watched
Forget(test) == pausedAt' = [pausedAt EXCEPT ![test] = NoSnapshot]

\* case "run"
Run(test, d) ==
    /\ Read("run", test, d)
    /\ Forget(test)
    /\ \E pick \in SiblingChoices(State, test, event.Time + d) :
            Commit(HandleRun(State, test, event.Time + d, pick))

\* case "pause"
Pause(test, d) ==
    /\ Read("pause", test, d)
    /\ Commit(HandlePause(State, test, event.Time + d))
    /\ pausedAt' = [pausedAt EXCEPT ![test] =
            IF runningTests[test] # NIL /\ panicMsg' = ""
            THEN Snapshot(HandlePause(State, test, event.Time + d),
                          runningTests[test])
            ELSE NoSnapshot]

\* case "cont"
Cont(test, d) ==
    /\ Read("cont", test, d)
    /\ Forget(test)
    /\ Commit(HandleCont(State, test, event.Time + d))

\* case "pass", "skip"
Stop(test, d) ==
    /\ Read("pass", test, d)
    /\ Forget(test)
    /\ Commit(HandleStop(State, test, event.Time + d))

\* case "output", "start", and events with an empty Test: nothing is done
Skip(d) ==
    /\ Read("output", EmptyName, d)
    /\ Commit(State)
    /\ UNCHANGED pausedAt

\* default: any other action ("fail", "bench", ...) panics
Unknown(d) ==
    /\ Read("fail", NameP, d)
    /\ Commit(Panic(State, "Unknown action"))
    /\ UNCHANGED pausedAt

Init ==
    /\ heap = <<>>
    /\ allTests = [n \in Names |-> NIL]
    /\ runningTests = [n \in Names |-> NIL]
    /\ event = [Action |-> "", Test |-> EmptyName, Time |-> 0]
    /\ nEvents = 0
    /\ pausedAt = [n \in Names |-> NoSnapshot]
    /\ panicMsg = ""
    /\ report = NoReport

\* main's loop reads one more event of a stream of at most max events
\* whose tests are among names
ReadRun(names, max) ==
    nEvents < max /\ \E test \in names, d \in Deltas : Run(test, d)

ReadPause(names, max) ==
    nEvents < max /\ \E test \in names, d \in Deltas : Pause(test, d)

ReadCont(names, max) ==
    nEvents < max /\ \E test \in names, d \in Deltas : Cont(test, d)

ReadStop(names, max) ==
    nEvents < max /\ \E test \in names, d \in Deltas : Stop(test, d)

ReadSkip(max) ==
    nEvents < max /\ \E d \in Deltas : Skip(d)

ReadUnknown(max) ==
    nEvents < max /\ \E d \in Deltas : Unknown(d)

\* streams of at most MaxEvents events over all the names
Next ==
    \/ ReadRun(Names, MaxEvents)
    \/ ReadPause(Names, MaxEvents)
    \/ ReadCont(Names, MaxEvents)
    \/ ReadStop(Names, MaxEvents)
    \/ ReadSkip(MaxEvents)
    \/ ReadUnknown(MaxEvents)

\* streams of at most MaxEventsSerial events over P, P/a, P/b
NextSerial ==
    \/ ReadRun(SerialNames, MaxEventsSerial)
    \/ ReadPause(SerialNames, MaxEventsSerial)
    \/ ReadCont(SerialNames, MaxEventsSerial)
    \/ ReadStop(SerialNames, MaxEventsSerial)
    \/ ReadSkip(MaxEventsSerial)
    \/ ReadUnknown(MaxEventsSerial)

\* streams of at most MaxEventsPair events over P, P/a
NextPair ==
    \/ ReadRun(PairNames, MaxEventsPair)
    \/ ReadPause(PairNames, MaxEventsPair)
    \/ ReadCont(PairNames, MaxEventsPair)
    \/ ReadStop(PairNames, MaxEventsPair)
    \/ ReadSkip(MaxEventsPair)
    \/ ReadUnknown(MaxEventsPair)

Spec == Init /\ [][Next]_vars

SpecSerial == Init /\ [][NextSerial]_vars

SpecPair == Init /\ [][NextPair]_vars

---------------------------------------------------------------------------
(* main after the loop: the report *)

resultsToList == 50

\* time.Duration.Round(m): d rounded to the nearest multiple of m, halfway
\* values away from zero; d itself when m <= 0
Round(d, m) ==
    LET r == (IF d < 0 THEN -d ELSE d) % m
    IN  IF m <= 0 THEN d
        ELSE IF d < 0
        THEN IF r + r < m THEN d + r ELSE d - m + r
        ELSE IF r + r < m THEN d - r ELSE d + m - r

\* allTests[key].AdjustedExecutionTime
AdjustedOf(st, key) == st.heap[st.allTests[key]].AdjustedExecutionTime

\* SortedKeys by adjusted time ascending
RECURSIVE SortedKeysAscending(_, _)
SortedKeysAscending(st, K) ==
    IF K = {} THEN {<<>>}
    ELSE LET first == {k \in K : \A j \in K :
                            AdjustedOf(st, j) >= AdjustedOf(st, k)}
         IN  UNION {{<<k>> \o rest :
                        rest \in SortedKeysAscending(st, K \ {k})} :
                    k \in first}

\* main.go:87-94: the keys K of allTests, sorted by adjusted time
\* descending.  The map is iterated in any order and sort.Slice is not
\* stable, so keys of equal adjusted time come in any order: the result is
\* any of these sequences
RECURSIVE SortedKeys(_, _)
SortedKeys(st, K) ==
    IF K = {} THEN {<<>>}
    ELSE LET first == {k \in K : \A j \in K :
                            AdjustedOf(st, j) <= AdjustedOf(st, k)}
         IN  UNION {{<<k>> \o rest : rest \in SortedKeys(st, K \ {k})} :
                    k \in first}

\* main.go:96-99: how many tests are listed
Results(n) == IF n < resultsToList THEN n ELSE resultsToList

\* main.go:104-106: the line of this record divides by a rounded adjusted
\* time of zero
LineFails(r) ==
    /\ Round(r.AdjustedExecutionTime, Millisecond)
         # Round(r.TotalExecutionTime, Millisecond)
    /\ Round(r.AdjustedExecutionTime, Millisecond) = 0

\* main.go:101-109: the line printed for a record; Total and Parallel are
\* printed when WithTotal holds (Parallel is 0 when it is not printed)
ResultLine(r) ==
    LET adjustedRounded == Round(r.AdjustedExecutionTime, Millisecond)
        totalRounded == Round(r.TotalExecutionTime, Millisecond)
    IN  [Name |-> r.Name,
         Adjusted |-> adjustedRounded,
         WithTotal |-> adjustedRounded # totalRounded,
         Total |-> totalRounded,
         Parallel |-> IF adjustedRounded # totalRounded
                         /\ adjustedRounded # 0
                      THEN GoDiv(totalRounded, adjustedRounded)
                      ELSE 0]

\* main.go:100-110: the lines printed for the sorted keys, up to the first
\* line that fails
PrintResults(st, keys) ==
    LET results == Results(Len(keys))
        failing == {i \in 1..results :
                        LineFails(st.heap[st.allTests[keys[i]]])}
        printed == IF failing = {} THEN results
                   ELSE (CHOOSE i \in failing :
                            \A j \in failing : i <= j) - 1
    IN  [Lines |-> [i \in 1..printed |->
                        ResultLine(st.heap[st.allTests[keys[i]]])],
         panicMsg |-> IF failing = {} THEN ""
                      ELSE "integer divide by zero"]

\* io.EOF ends the loop: the warnings for the tests still running, then the
\* results
EndOfStream ==
    /\ panicMsg = ""
    /\ ~report.Done
    /\ \E keys \in SortedKeys(State, KnownNames(State)) :
            /\ report' = [Done |-> TRUE,
                          Warnings |-> {heap[a].Name : a \in RunningSet(State)},
                          Lines |-> PrintResults(State, keys).Lines]
            /\ panicMsg' = PrintResults(State, keys).panicMsg
    /\ UNCHANGED <<heap, allTests, runningTests, event, nEvents, pausedAt>>

---------------------------------------------------------------------------
(* Long streams: tests T1, T2, ... run one after another *)

\* the most tests a stream runs
MaxReportTests == 51

Digit(i) == <<"0", "1", "2", "3", "4", "5", "6", "7", "8", "9">>[i + 1]

RECURSIVE Decimal(_)
Decimal(k) ==
    IF k < 10 THEN <<Digit(k)>>
    ELSE Decimal(k \div 10) \o <<Digit(k % 10)>>

\* the name of the k-th test
TestName(k) == <<"T">> \o Decimal(k)

NumberedNames == {TestName(k) : k \in 1..MaxReportTests}

\* the milliseconds between the run and the finish of the k-th test: the
\* first two tests take the same time, every later one takes longer
NumberedDuration(k) == IF k = 1 THEN 1 ELSE k - 1

InitNumbered ==
    /\ heap = <<>>
    /\ allTests = [n \in NumberedNames |-> NIL]
    /\ runningTests = [n \in NumberedNames |-> NIL]
    /\ event = [Action |-> "", Test |-> EmptyName, Time |-> 0]
    /\ nEvents = 0
    /\ pausedAt = [n \in NumberedNames |-> NoSnapshot]
    /\ panicMsg = ""
    /\ report = NoReport

\* the next test is run when no test is running, at the time of the
\* previous event
RunNumbered ==
    \E k \in 1..MaxReportTests :
        /\ Len(heap) = k - 1
        /\ RunningSet(State) = {}
        /\ Run(TestName(k), 0)

\* the running test finishes
StopNumbered ==
    \E k \in 1..MaxReportTests :
        /\ Lookup(runningTests, TestName(k)) # NIL
        /\ Stop(TestName(k), NumberedDuration(k) * Millisecond)

NextNumbered ==
    \/ RunNumbered
    \/ StopNumbered
    \/ EndOfStream

SpecNumbered == InitNumbered /\ [][NextNumbered]_vars

---------------------------------------------------------------------------
(* Streams whose events are 5ms or 10ms apart *)

\* the length of these streams
MaxEventsHalf == 5

\* the first event is at time 0
HalfDeltas ==
    IF nEvents = 0 THEN {0} ELSE {5 * Millisecond, 10 * Millisecond}

\* main's loop reads one more event, its time being one of deltas after the
\* previous event's
ReadRunAfter(names, deltas, max) ==
    nEvents < max /\ \E test \in names, d \in deltas : Run(test, d)

ReadPauseAfter(names, deltas, max) ==
    nEvents < max /\ \E test \in names, d \in deltas : Pause(test, d)

ReadContAfter(names, deltas, max) ==
    nEvents < max /\ \E test \in names, d \in deltas : Cont(test, d)

ReadStopAfter(names, deltas, max) ==
    nEvents < max /\ \E test \in names, d \in deltas : Stop(test, d)

ReadSkipAfter(deltas, max) ==
    nEvents < max /\ \E d \in deltas : Skip(d)

ReadUnknownAfter(deltas, max) ==
    nEvents < max /\ \E d \in deltas : Unknown(d)

\* streams of at most MaxEventsHalf events over P, P/a, P/b
NextHalf ==
    \/ ReadRunAfter(SerialNames, HalfDeltas, MaxEventsHalf)
    \/ ReadPauseAfter(SerialNames, HalfDeltas, MaxEventsHalf)
    \/ ReadContAfter(SerialNames, HalfDeltas, MaxEventsHalf)
    \/ ReadStopAfter(SerialNames, HalfDeltas, MaxEventsHalf)
    \/ ReadSkipAfter(HalfDeltas, MaxEventsHalf)
    \/ ReadUnknownAfter(HalfDeltas, MaxEventsHalf)

SpecHalf == Init /\ [][NextHalf]_vars

---------------------------------------------------------------------------
(* Short streams with events less than a millisecond apart, and their      *)
(* report                                                                  *)

\* the length of these streams
MaxEventsFine == 3

\* consecutive events are at the same time or 0.8ms apart
FineDeltas == {0, 8 * (Millisecond \div 10)}

FineNames == {NameP, NameQ}

\* streams of at most MaxEventsFine events over P and Q, then the report
NextFine ==
    \/ ReadRunAfter(FineNames, FineDeltas, MaxEventsFine)
    \/ ReadPauseAfter(FineNames, FineDeltas, MaxEventsFine)
    \/ ReadContAfter(FineNames, FineDeltas, MaxEventsFine)
    \/ ReadStopAfter(FineNames, FineDeltas, MaxEventsFine)
    \/ ReadSkipAfter(FineDeltas, MaxEventsFine)
    \/ ReadUnknownAfter(FineDeltas, MaxEventsFine)
    \/ EndOfStream

SpecFine == Init /\ [][NextFine]_vars


---------------------------------------------------------------------------
(* Properties.  Every stream the specifications read has non-decreasing    *)
(* timestamps: Deltas holds no negative step.                              *)

Live(st) == {a \in RunningSet(st) : ~st.heap[a].AssumedStopped}

RECURSIVE SumAdjusted(_, _)
SumAdjusted(h, S) ==
    IF S = {} THEN 0
    ELSE LET a == CHOOSE x \in S : TRUE
         IN  h[a].AdjustedExecutionTime + SumAdjusted(h, S \ {a})

\* C1: after every processed event every test record has
\* totalTime >= adjustedTime.
C1_TotalAtLeastAdjusted ==
    \A a \in DOMAIN heap :
        heap[a].TotalExecutionTime >= heap[a].AdjustedExecutionTime

\* two tests shared an interval: a record with 0 < adjusted < total
C1_Witness ==
    \E a \in DOMAIN heap :
        /\ heap[a].AdjustedExecutionTime > 0
        /\ heap[a].TotalExecutionTime > heap[a].AdjustedExecutionTime

\* a run event that reaches main.go:178: a top-level test, or a subtest
\* whose parent is not running and that stops no sibling
RunIsBulk(st, test, time) ==
    LET s1 == RegisterTest(st, test, time)
        parent == ResolveParent(s1, test)
    IN  \/ ~IsSubTestMatch(test)
        \/ /\ Lookup(s1.runningTests, parent) = NIL
           /\ SiblingCandidates(s1, parent) = {}

\* a finish event that reaches updateRunningTests (main.go:287 or 301)
StopIsBulk(st, test) ==
    LET a == Lookup(st.runningTests, test)
        p == st.heap[a].Parent
    IN  /\ a # NIL
        /\ \/ p = NIL
           \/ Len(st.heap[p].Children) > 1 /\ ~st.heap[a].AssumedStopped

\* the records the event ev advances by a bulk advance from the state st:
\* the running records that are not assumed stopped when updateRunningTests
\* is called (handlePause clears the paused record's flag first)
BulkAdvanced(st, ev) ==
    IF ev.Action = "run" /\ RunIsBulk(st, ev.Test, ev.Time)
    THEN Live(st)
    ELSE IF ev.Action = "pause" /\ Lookup(st.runningTests, ev.Test) # NIL
    THEN Live(st) \cup {st.runningTests[ev.Test]}
    ELSE IF ev.Action = "pass" /\ StopIsBulk(st, ev.Test)
    THEN Live(st)
    ELSE {}

AdjustedIncrement(a) ==
    heap'[a].AdjustedExecutionTime - heap[a].AdjustedExecutionTime

\* C2 as claimed: on a bulk advance the increments of the advanced records
\* sum to the time elapsed since the previous event, less a remainder
\* smaller than their number.
C2_SumIsElapsedSincePreviousEvent ==
    [][LET S == BulkAdvanced(State, event')
           elapsed == event'.Time - event.Time
           sum == SumAdjusted(heap', S) - SumAdjusted(heap, S)
       IN  (nEvents >= 1 /\ S # {}) =>
               (sum <= elapsed /\ elapsed - sum < Cardinality(S))]_vars

\* C2, amended: on a bulk advance every advanced record's adjustedTime grows
\* by the time elapsed since that record's own lastTimestamp, divided by the
\* number of advanced records; when all of them were last updated at the
\* previous event, the increments sum to the time elapsed since that event,
\* less a remainder smaller than their number.
C2_BulkAdvanceShares ==
    [][LET S == BulkAdvanced(State, event')
           elapsed == event'.Time - event.Time
           sum == SumAdjusted(heap', S) - SumAdjusted(heap, S)
       IN  (nEvents >= 1 /\ S # {}) =>
               /\ \A a \in S :
                    AdjustedIncrement(a) =
                        GoDiv(event'.Time - heap[a].LastTimestamp,
                              Cardinality(S))
               /\ (\A a \in S : heap[a].LastTimestamp = event.Time) =>
                    (sum <= elapsed /\ elapsed - sum < Cardinality(S))]_vars

\* a pause one tick after the previous event divided the tick among three
\* running records, leaving a remainder
C2_Witness ==
    /\ event.Action = "pause"
    /\ event.Time = Tick
    /\ Cardinality({a \in DOMAIN heap :
            /\ heap[a].LastTimestamp = Tick
            /\ heap[a].AdjustedExecutionTime = Tick \div 3
            /\ heap[a].TotalExecutionTime = Tick}) = 3

\* the names known when the event's test was looked up
ResolvableParent(test) ==
    \E n \in KnownNames(State) : HasPrefix(test, n \o <<"/">>)

\* C3: a run event for a subtest name of which no known test name followed
\* by "/" is a prefix (the literal parent included) is fatal.
C3_UnresolvedSubtestIsFatal ==
    (/\ event.Action = "run"
     /\ IsSubTestMatch(event.Test)
     /\ ~ResolvableParent(event.Test)) => panicMsg # ""

\* C4: the record stored in allTests for a test name is never deleted or
\* replaced: no event changes which record a known name maps to.
C4_RegistryIsAppendOnly ==
    [][\A n \in Names :
          allTests[n] # NIL => allTests'[n] = allTests[n]]_vars

ChildrenOf(p) == {heap[p].Children[i] : i \in 1..Len(heap[p].Children)}

\* C5: every record in p's children list has p as its parent, and every
\* running record whose parent is p is in p's children list.
C5_ChildrenMatchParents ==
    \A p \in DOMAIN heap :
        /\ \A c \in ChildrenOf(p) : heap[c].Parent = p
        /\ \A c \in RunningSet(State) :
                heap[c].Parent = p => c \in ChildrenOf(p)

\* the parent chain of a, cut after fuel steps
RECURSIVE ParentChain(_, _, _)
ParentChain(h, a, fuel) ==
    IF a = NIL \/ fuel = 0 THEN <<>>
    ELSE <<a>> \o ParentChain(h, h[a].Parent, fuel - 1)

NoRepeat(seq) == \A i, j \in 1..Len(seq) : seq[i] = seq[j] => i = j

\* C6: following parent references from any record never revisits a record
\* and ends, after finitely many steps, at a record with no parent.
C6_ParentChainsEnd ==
    \A a \in DOMAIN heap :
        LET chain == ParentChain(heap, a, Len(heap) + 1)
        IN  /\ NoRepeat(chain)
            /\ Len(chain) <= Len(heap)
            /\ heap[chain[Len(chain)]].Parent = NIL

\* a record with a parent and a grandparent
C6_Witness ==
    \E a \in DOMAIN heap :
        /\ heap[a].Parent # NIL
        /\ heap[heap[a].Parent].Parent # NIL

\* C7: a continue event for a test that a pause took out of runningTests,
\* no event having named the test in between, finds the record's
\* adjustedTime and totalTime as the pause left them and leaves them so,
\* sets its lastTimestamp to the event's time, leaves it not assumed stopped
\* and puts it in runningTests.
C7_PausedIntervalExcluded ==
    [][LET test == event'.Test
           snap == pausedAt[test]
           a == snap.Addr
       IN  (/\ event'.Action = "cont"
            /\ a # NIL
            /\ a = allTests[test]
            /\ panicMsg' = "") =>
               /\ heap'[a].AdjustedExecutionTime = snap.Adjusted
               /\ heap'[a].TotalExecutionTime = snap.Total
               /\ heap'[a].LastTimestamp = event'.Time
               /\ ~heap'[a].AssumedStopped
               /\ runningTests'[test] = a]_vars

\* C8: a record's parallel flag, once set, stays set, and no record is both
\* parallel and assumed stopped.
C8_ParallelNeverDormant ==
    /\ [](\A a \in DOMAIN heap :
            ~(heap[a].Parallel /\ heap[a].AssumedStopped))
    /\ [][\A a \in DOMAIN heap : heap[a].Parallel => heap'[a].Parallel]_vars

\* a run event for a sibling of a running parallel record has been handled:
\* the parallel record has the new test's parent, which is not running
C8_Witness ==
    /\ event.Action = "run"
    /\ panicMsg = ""
    /\ \E a \in RunningSet(State) :
            /\ heap[a].Parallel
            /\ heap[a].Name # event.Test
            /\ heap[a].Parent # NIL
            /\ heap[heap[a].Parent].Name = IsSubTestParent(event.Test)
            /\ heap[a].Parent \notin RunningSet(State)

\* the records of a's parent chain (a included) whose parent is named parent
ChainMatches(h, a, parent) ==
    {c \in {ParentChain(h, a, Len(h))[i] :
                i \in 1..Len(ParentChain(h, a, Len(h)))} :
        h[c].Parent # NIL /\ h[h[c].Parent].Name = parent}

\* the running records sibling inference may stop for a run of test
Stoppable(test) ==
    {a \in RunningSet(State) :
        /\ ~heap[a].Parallel
        /\ ~heap[a].AssumedStopped
        /\ ChainMatches(heap, a, ResolveParent(RegisterTest(State, test, 0),
                                               test)) # {}}

\* C9 for one run event: some stoppable record r is the one record that
\* becomes assumed stopped, with its times advanced to the event's time;
\* the new record is running from the event's time and is the last child of
\* the record named parent on r's chain.
SiblingStopped(test, time) ==
    LET parent == ResolveParent(RegisterTest(State, test, time), test)
        new == Len(heap) + 1
    IN  \E r \in Stoppable(test) :
            LET q == heap[CHOOSE c \in ChainMatches(heap, r, parent) :
                            TRUE].Parent
            IN  /\ {a \in DOMAIN heap : heap'[a].AssumedStopped
                                        /\ ~heap[a].AssumedStopped} = {r}
                /\ heap'[r].LastTimestamp = time
                /\ heap'[r].TotalExecutionTime =
                        heap[r].TotalExecutionTime
                        + (time - heap[r].LastTimestamp)
                /\ heap'[r].AdjustedExecutionTime =
                        heap[r].AdjustedExecutionTime
                        + GoDiv(time - heap[r].LastTimestamp,
                                ActiveCount(State))
                /\ allTests'[test] = new
                /\ runningTests'[test] = new
                /\ heap'[new].LastTimestamp = time
                /\ heap'[new].Parent = q
                /\ heap'[q].Children = Append(heap[q].Children, new)
                /\ panicMsg' = ""

\* C9: (a) a run event for a subtest whose resolved parent is not running
\* while a stoppable record is, behaves as SiblingStopped says; (b) a record
\* that stays assumed stopped keeps its times; (c) after run P@0, run P/a@0,
\* run P/b@10ms the record of P/a is assumed stopped with adjusted = total =
\* 10ms and P/b runs from 10ms as a child of P.
C9_SiblingInference ==
    /\ [][(/\ event'.Action = "run"
           /\ IsSubTestMatch(event'.Test)
           /\ Lookup(runningTests,
                     ResolveParent(RegisterTest(State, event'.Test, 0),
                                   event'.Test)) = NIL
           /\ Stoppable(event'.Test) # {})
             => SiblingStopped(event'.Test, event'.Time)]_vars
    /\ [][\A a \in DOMAIN heap :
            (heap[a].AssumedStopped /\ heap'[a].AssumedStopped) =>
                /\ heap'[a].AdjustedExecutionTime
                        = heap[a].AdjustedExecutionTime
                /\ heap'[a].TotalExecutionTime
                        = heap[a].TotalExecutionTime]_vars
    /\ []((/\ nEvents = 3
           /\ event = [Action |-> "run", Test |-> NamePb,
                       Time |-> 10 * Millisecond]
           /\ Len(heap) = 3
           /\ heap[1].Name = NameP /\ heap[1].LastTimestamp = 0
           /\ heap[2].Name = NamePa)
             => /\ heap[2].AssumedStopped
                /\ heap[2].AdjustedExecutionTime = 10 * Millisecond
                /\ heap[2].TotalExecutionTime = 10 * Millisecond
                /\ runningTests[NamePb] = 3
                /\ heap[3].LastTimestamp = 10 * Millisecond
                /\ heap[3].Parent = 1
                /\ heap[1].Children = <<2, 3>>)

\* the state after run P@0, run P/a@0, run P/b@10ms
C9_Witness ==
    /\ nEvents = 3
    /\ event = [Action |-> "run", Test |-> NamePb, Time |-> 10 * Millisecond]
    /\ Len(heap) = 3
    /\ heap[1].Name = NameP /\ heap[1].LastTimestamp = 0
    /\ heap[2].Name = NamePa
    /\ heap[2].AssumedStopped

\* the sibling is found through its parent's parent: after run P, run P/a,
\* run P/a/x, run P/b the record of P/a/x is assumed stopped
C9_WitnessChain ==
    /\ event.Action = "run" /\ event.Test = NamePb
    /\ \E a \in DOMAIN heap :
            /\ heap[a].Name = NamePax
            /\ heap[a].AssumedStopped
            /\ heap[a].Parent # NIL
            /\ heap[heap[a].Parent].Name = NamePa

\* C10: a pause or finish event naming a test that is not in runningTests,
\* and a continue event naming a test that is not in allTests, does not
\* panic and changes neither map nor any record.
C10_UnknownTestIsIgnored ==
    [][(\/ /\ event'.Action \in {"pause", "pass"}
           /\ Lookup(runningTests, event'.Test) = NIL
        \/ /\ event'.Action = "cont"
           /\ Lookup(allTests, event'.Test) = NIL)
          => /\ panicMsg' = ""
             /\ UNCHANGED <<heap, allTests, runningTests>>]_vars

\* a finish event one tick after the previous event named a known test that
\* is not running, while another test runs with its clock not advanced
C10_Witness ==
    /\ event.Action = "pass"
    /\ event.Time = Tick
    /\ allTests[event.Test] # NIL
    /\ runningTests[event.Test] = NIL
    /\ heap[allTests[event.Test]].LastTimestamp = 0
    /\ \E a \in RunningSet(State) : heap[a].LastTimestamp = 0

\* the record a changed one of its two accumulated times in this step
TimesChanged(a) ==
    \/ heap'[a].AdjustedExecutionTime # heap[a].AdjustedExecutionTime
    \/ heap'[a].TotalExecutionTime # heap[a].TotalExecutionTime

\* C11: an event that changes a record's adjustedTime or totalTime finds
\* the record in runningTests before the event and changes it while it is
\* not assumed stopped: the record is not assumed stopped before the event,
\* or the event is the pause of that record, which clears the flag before
\* it advances the times.
C11_AdvanceOnlyWhileActive ==
    [][\A a \in DOMAIN heap :
          TimesChanged(a) =>
              /\ a \in RunningSet(State)
              /\ \/ ~heap[a].AssumedStopped
                 \/ /\ event'.Action = "pause"
                    /\ Lookup(runningTests, event'.Test) = a]_vars

\* a pause one tick after the start advanced the paused record and left an
\* assumed-stopped running record, last updated at the start, as it was
C11_Witness ==
    /\ event.Action = "pause"
    /\ event.Time = Tick
    /\ allTests[event.Test] # NIL
    /\ heap[allTests[event.Test]].TotalExecutionTime = Tick
    /\ \E a \in RunningSet(State) :
            /\ heap[a].AssumedStopped
            /\ heap[a].LastTimestamp = 0
            /\ heap[a].TotalExecutionTime = 0

\* C12: from one processed event to the next no record's adjustedTime or
\* totalTime decreases (the timestamps of the stream do not decrease).
C12_TimesNeverDecrease ==
    [][\A a \in DOMAIN heap :
          /\ heap'[a].AdjustedExecutionTime >= heap[a].AdjustedExecutionTime
          /\ heap'[a].TotalExecutionTime >= heap[a].TotalExecutionTime]_vars

\* a record advanced twice: alone over one tick, with a second running
\* record over another
C12_Witness ==
    \E a \in DOMAIN heap :
        /\ heap[a].TotalExecutionTime = 2 * Tick
        /\ heap[a].AdjustedExecutionTime = Tick + Tick \div 2

\* the running record handleRun finds for the parent of test (main.go:148)
RunningParentOf(test) ==
    Lookup(runningTests, ResolveParent(RegisterTest(State, test, 0), test))

\* C13: a run event for a subtest whose parent is found in runningTests
\* either is fatal, when that parent already has a record in its children
\* list, or leaves the parent with the new record as its only child and
\* out of runningTests.
C13_FirstChildSuspendsParent ==
    [][LET test == event'.Test
           rp == RunningParentOf(test)
           new == Len(heap) + 1
       IN  (/\ event'.Action = "run"
            /\ IsSubTestMatch(test)
            /\ rp # NIL) =>
               IF Len(heap[rp].Children) > 0
               THEN panicMsg' # ""
               ELSE /\ panicMsg' = ""
                    /\ allTests'[test] = new
                    /\ heap'[new].Parent = rp
                    /\ heap'[rp].Children = <<new>>
                    /\ \A n \in Names : runningTests'[n] # rp]_vars

\* a run event one tick after the start attached its test to a parent that
\* was running: the parent was advanced to the event's time and left
\* runningTests
C13_Witness ==
    /\ event.Action = "run"
    /\ event.Time = Tick
    /\ panicMsg = ""
    /\ runningTests[event.Test] # NIL
    /\ LET p == heap[runningTests[event.Test]].Parent
       IN  /\ p # NIL
           /\ heap[p].Children = <<runningTests[event.Test]>>
           /\ heap[p].TotalExecutionTime = Tick
           /\ p \notin RunningSet(State)

\* the second attempt: the run event found a running parent with a child
C13_WitnessFatal ==
    /\ event.Action = "run"
    /\ panicMsg = "Running parent test has multiple running children"

\* the state after run A@0, run B@0, the tests A and B being P and Q: two
\* events have made two records, so both events were run events
ConcurrentPairStarted ==
    /\ nEvents = 2
    /\ event = [Action |-> "run", Test |-> NameQ, Time |-> 0]
    /\ Len(heap) = 2
    /\ heap[1].Name = NameP
    /\ heap[2].Name = NameQ

\* both records updated at 10ms with the adjusted time adj and the total
\* time 10ms, the tests named in running being the running ones
ConcurrentPairTimes(adj, running) ==
    /\ panicMsg = ""
    /\ heap = << [NewRunningTest(NameP, 10 * Millisecond) EXCEPT
                    !.AdjustedExecutionTime = adj,
                    !.TotalExecutionTime = 10 * Millisecond],
                 [NewRunningTest(NameQ, 10 * Millisecond) EXCEPT
                    !.AdjustedExecutionTime = adj,
                    !.TotalExecutionTime = 10 * Millisecond] >>
    /\ allTests = [n \in Names |->
                     IF n = NameP THEN 1 ELSE IF n = NameQ THEN 2 ELSE NIL]
    /\ runningTests = [n \in Names |-> IF n \in running THEN allTests[n]
                                       ELSE NIL]

FinishAt10(test) ==
    [Action |-> "pass", Test |-> test, Time |-> 10 * Millisecond]

\* run A@0, run B@0, finish A@10, finish B@10 gives both records the
\* adjusted time adj and the total time 10ms: finish A@10 does so, and
\* finish B@10 removes B and changes no time
ConcurrentPairEndsWith(adj) ==
    /\ (ConcurrentPairStarted /\ event' = FinishAt10(NameP))
            => ConcurrentPairTimes(adj, {NameQ})'
    /\ (/\ nEvents = 3
        /\ event = FinishAt10(NameP)
        /\ ConcurrentPairTimes(adj, {NameQ})
        /\ event' = FinishAt10(NameQ))
            => ConcurrentPairTimes(adj, {})'

\* C14 as claimed: run A@0, run B@0, finish A@10, finish B@10 ends with
\* A.adjusted = B.adjusted = 10ms and A.total = B.total = 10ms.
C14_ConcurrentPairGetsWhole ==
    [][ConcurrentPairEndsWith(10 * Millisecond)]_vars

\* C14, amended: run A@0, run B@0, finish A@10, finish B@10 ends with
\* A.adjusted = B.adjusted = 5ms and A.total = B.total = 10ms.
C14_ConcurrentPairGetsHalf ==
    [][ConcurrentPairEndsWith(5 * Millisecond)]_vars

\* the state after the four events of the scenario
C14_Witness ==
    /\ nEvents = 4
    /\ event = FinishAt10(NameQ)
    /\ ConcurrentPairTimes(5 * Millisecond, {})

\* the positions of the report's lines that carry the name of the test
LinesOf(name) ==
    {i \in 1..Len(report.Lines) : report.Lines[i].Name = name}

\* C15 as claimed: every test that received a run event appears exactly
\* once in the final report, whatever the number of tests in allTests.
C15_EveryTestReportedOnce ==
    report.Done =>
        \A k \in KnownNames(State) : Cardinality(LinesOf(k)) = 1

\* C15, amended: the report lists known tests, none twice; when it does
\* not fail it lists min(resultsToList, number of known tests) tests, and
\* no omitted test has a greater adjustedTime than a listed one.  So all
\* tests appear exactly once when there are at most resultsToList of them.
C15_TopResultsReportedOnce ==
    report.Done =>
        /\ \A i \in 1..Len(report.Lines) :
                /\ report.Lines[i].Name \in KnownNames(State)
                /\ LinesOf(report.Lines[i].Name) = {i}
        /\ panicMsg = "" =>
            /\ Len(report.Lines) = Results(Cardinality(KnownNames(State)))
            /\ \A k \in KnownNames(State) :
                    LinesOf(k) = {} =>
                        \A j \in KnownNames(State) :
                            LinesOf(j) # {} =>
                                AdjustedOf(State, k) <= AdjustedOf(State, j)

\* the report of a stream that ran one test more than resultsToList
C15_Witness ==
    /\ report.Done
    /\ panicMsg = ""
    /\ Cardinality(KnownNames(State)) = resultsToList + 1
    /\ Len(report.Lines) = resultsToList

\* a finish event for a running test whose parent's children list holds one
\* record: the parent's list is emptied, the parent runs from the event's
\* time with its times unchanged, the test leaves runningTests, and the
\* step does to the test's record what finished says
LastChildFinishes(finished(_)) ==
    LET test == event'.Test
        a == Lookup(runningTests, test)
        p == heap[a].Parent
    IN  (/\ event'.Action = "pass"
         /\ a # NIL
         /\ p # NIL
         /\ Len(heap[p].Children) = 1) =>
            /\ panicMsg' = ""
            /\ finished(a)
            /\ heap'[p].Children = <<>>
            /\ runningTests'[heap[p].Name] = p
            /\ heap'[p].LastTimestamp = event'.Time
            /\ heap'[p].AdjustedExecutionTime = heap[p].AdjustedExecutionTime
            /\ heap'[p].TotalExecutionTime = heap[p].TotalExecutionTime
            /\ runningTests'[test] = NIL

\* the finishing record is advanced to the event's time, its share being
\* that of one among the running records that are not assumed stopped
FinishedAdvanced(a) ==
    /\ heap'[a].LastTimestamp = event'.Time
    /\ heap'[a].TotalExecutionTime =
            heap[a].TotalExecutionTime
            + (event'.Time - heap[a].LastTimestamp)
    /\ ActiveCount(State) > 0
    /\ heap'[a].AdjustedExecutionTime =
            heap[a].AdjustedExecutionTime
            + GoDiv(event'.Time - heap[a].LastTimestamp, ActiveCount(State))

\* the same unless the record is assumed stopped, which leaves it as it is
FinishedAdvancedUnlessStopped(a) ==
    IF heap[a].AssumedStopped THEN heap'[a] = heap[a]
    ELSE FinishedAdvanced(a)

\* the records of P and P/a in the scenario
ScenarioP(last, times, children) ==
    [NewRunningTest(NameP, last) EXCEPT !.AdjustedExecutionTime = times,
                                        !.TotalExecutionTime = times,
                                        !.Children = children]

ScenarioPa(last, times) ==
    [NewRunningTest(NamePa, last) EXCEPT !.AdjustedExecutionTime = times,
                                         !.TotalExecutionTime = times,
                                         !.Parent = 1]

ScenarioEvent(n, action, test, ms) ==
    /\ nEvents = n
    /\ event = [Action |-> action, Test |-> test, Time |-> ms * Millisecond]

\* run P@0, run P/a@5, finish P/a@15, finish P@20, event by event, ends
\* with P.adjusted = 10ms and P/a.adjusted = 10ms
SerialSubtestScenario ==
    /\ (ScenarioEvent(1, "run", NameP, 0) /\ ScenarioEvent(2, "run", NamePa, 5)')
         => /\ heap' = <<ScenarioP(5 * Millisecond, 5 * Millisecond, <<2>>),
                         ScenarioPa(5 * Millisecond, 0)>>
            /\ RunningSet(State)' = {2}
    /\ (/\ ScenarioEvent(2, "run", NamePa, 5)
        /\ heap = <<ScenarioP(5 * Millisecond, 5 * Millisecond, <<2>>),
                    ScenarioPa(5 * Millisecond, 0)>>
        /\ RunningSet(State) = {2}
        /\ ScenarioEvent(3, "pass", NamePa, 15)')
         => /\ heap' = <<ScenarioP(15 * Millisecond, 5 * Millisecond, <<>>),
                         ScenarioPa(15 * Millisecond, 10 * Millisecond)>>
            /\ RunningSet(State)' = {1}
    /\ (/\ ScenarioEvent(3, "pass", NamePa, 15)
        /\ heap = <<ScenarioP(15 * Millisecond, 5 * Millisecond, <<>>),
                    ScenarioPa(15 * Millisecond, 10 * Millisecond)>>
        /\ RunningSet(State) = {1}
        /\ ScenarioEvent(4, "pass", NameP, 20)')
         => /\ heap' = <<ScenarioP(20 * Millisecond, 10 * Millisecond, <<>>),
                         ScenarioPa(15 * Millisecond, 10 * Millisecond)>>
            /\ RunningSet(State)' = {}

\* C16 as claimed: a finish event for a test in runningTests whose parent's
\* children list holds exactly one record advances the finishing test's
\* times to the event's time, empties the parent's list, puts the parent
\* in runningTests with lastTimestamp the event's time and its two times
\* unchanged, and removes the test from runningTests; and the scenario
\* ends with P.adjusted = 10ms and P/a.adjusted = 10ms.
C16_LastChildResumesParent ==
    [][LastChildFinishes(FinishedAdvanced) /\ SerialSubtestScenario]_vars

\* C16, amended: the same, except that a finishing test that is assumed
\* stopped keeps its times and lastTimestamp as they are.
C16_LastLiveChildResumesParent ==
    [][/\ LastChildFinishes(FinishedAdvancedUnlessStopped)
       /\ SerialSubtestScenario]_vars

\* the state after the four events of the scenario
C16_Witness ==
    /\ ScenarioEvent(4, "pass", NameP, 20)
    /\ heap = <<ScenarioP(20 * Millisecond, 10 * Millisecond, <<>>),
                ScenarioPa(15 * Millisecond, 10 * Millisecond)>>
    /\ RunningSet(State) = {}

\* an assumed-stopped test finished as the one record of its parent's list:
\* the parent runs from the event's time, the test's clock stays behind
C16_WitnessStopped ==
    /\ event.Action = "pass"
    /\ panicMsg = ""
    /\ allTests[event.Test] # NIL
    /\ runningTests[event.Test] = NIL
    /\ LET a == allTests[event.Test]
       IN  /\ heap[a].AssumedStopped
           /\ heap[a].LastTimestamp < event.Time
           /\ heap[a].Parent \in RunningSet(State)
           /\ heap[heap[a].Parent].LastTimestamp = event.Time
           /\ heap[heap[a].Parent].Children = <<>>

\* the records of allTests
AllRecords == {allTests[n] : n \in DOMAIN allTests} \ {NIL}

\* C17: after every processed event the adjustedTime of the records of
\* allTests adds up to no more than the time elapsed between the first
\* event and the latest one.  The first event of every stream of SpecHalf
\* is at time 0, so that the elapsed time is the latest event's time.
C17_SharesWithinElapsedTime ==
    nEvents >= 1 => SumAdjusted(heap, AllRecords) <= event.Time

\* C18: no record in runningTests has a non-empty children list.
C18_RunningHasNoChildren ==
    \A a \in RunningSet(State) : heap[a].Children = <<>>

\* C19: at the end of the stream report generation does not fail, and every
\* line of the report that shows a total time, the rounded adjusted and
\* total times being different, has a rounded adjusted time other than
\* zero to divide by.
C19_ReportNeverDividesByZero ==
    report.Done =>
        /\ panicMsg = ""
        /\ \A i \in 1..Len(report.Lines) :
                report.Lines[i].WithTotal => report.Lines[i].Adjusted # 0

\* the state in which the step's advance counts the running records that
\* are not assumed stopped: the state before the event, with the paused
\* record's flag cleared when the event is a pause
CountedState ==
    LET a == Lookup(runningTests, event'.Test)
    IN  IF event'.Action = "pause" /\ a # NIL
        THEN SetHeap(State, [heap EXCEPT ![a].AssumedStopped = FALSE])
        ELSE State

\* C20: no event makes an advance divide by zero: whenever an event
\* advances a record's times, the record is among the running records that
\* are not assumed stopped when they are counted, so the count is at
\* least 1.
C20_AdvanceCountAtLeastOne ==
    [][/\ panicMsg' # "integer divide by zero"
       /\ \A a \in DOMAIN heap :
            TimesChanged(a) =>
                /\ a \in Live(CountedState)
                /\ ActiveCount(CountedState) >= 1]_vars

\* a finish event one tick after the start gave the finishing record the
\* whole tick: the count was 1 although a second, assumed-stopped record
\* was running
C20_Witness ==
    /\ event.Action = "pass"
    /\ event.Time = Tick
    /\ allTests[event.Test] # NIL
    /\ heap[allTests[event.Test]].AdjustedExecutionTime = Tick
    /\ \E a \in RunningSet(State) : heap[a].AssumedStopped

=============================================================================
